---- MODULE Spec2Model ----
(***************************************************************************)
(* A model of the cache simulator csim.c: main's configuration check,      *)
(* initCache, the trace loop of process_trace_file, and update_cache with  *)
(* detect_hit / detect_coldmiss / detect_othermiss / line2replace /        *)
(* update_cacheline.                                                       *)
(*                                                                         *)
(* Values of type unsigned long are held as integers.  The runs explored   *)
(* here stay far below 2^64, except for one subtraction that can go below  *)
(* zero when a zero-line set is used (lines_no = 0); there the integer     *)
(* held is the two's complement reading of the 64-bit word (-k stands for  *)
(* 2^64 - k).                                                              *)
(***************************************************************************)
EXTENDS Integers, Sequences, FiniteSets, TLC

VARIABLES
    pc,               \* where main is: "main", "trace", "done", "exit1", "crash"
    set_bits,         \* main's set_bits   (-s)
    block_bits,       \* main's block_bits (-b)
    lines_no,         \* main's lines_no   (-E)
    cache_simulator,  \* the sets of *cache_simulator; <<>> while not allocated
    stats,            \* *stats
    timeStamp,        \* the global timeStamp
    linebuf,          \* the line last read by fgets, as its tokens
    nread,            \* number of lines fgets has returned
    applied,          \* number of update_cache calls made
    out,              \* what the last update_cache did (its verbose report)
    summary,          \* the statistics handed to printSummary, or NoSummary
    ref,              \* a reference LRU cache run beside the simulator
    hist,             \* what a run records of the lines read so far
    probe             \* the input and the result of a function run alone

vars == <<pc, set_bits, block_bits, lines_no, cache_simulator, stats,
          timeStamp, linebuf, nread, applied, out, summary, ref, hist, probe>>

----------------------------------------------------------------------------
(* Bounds of the exploration. *)

\* largest number of set index bits of an accepted configuration
MaxS == 1
\* largest number of lines per set
MaxE == 2
\* largest number of block bits of an accepted configuration
MaxB == 1
\* largest number of trace lines read in one run
MaxTrace == 4
\* largest number of trace lines read in a run that records them
MaxReplay == 3

\* width of unsigned long, and of the address
WordBits == 64

\* largest width and height of the matrices transposed
MaxDim == 17

\* width of int, the type in which 1 << s and 1 << block_bits are evaluated
IntBits == 32

----------------------------------------------------------------------------
(* 64-bit words as bit vectors, for the address decoding of update_cache. *)

BitIdx == 0 .. (WordBits - 1)

\* the bits of a non-negative number below 2^31
ToBits(n) == [i \in BitIdx |-> IF i <= 30 THEN (n \div (2 ^ i)) % 2 ELSE 0]

\* (unsigned long)-1
AllOnes == [i \in BitIdx |-> 1]

\* x >> k on a 64-bit word, 0 <= k <= 63
Shr(x, k) == [i \in BitIdx |-> IF i + k <= WordBits - 1 THEN x[i + k] ELSE 0]

\* x & y
BitAnd(x, y) == [i \in BitIdx |-> x[i] * y[i]]

RECURSIVE BitsValFrom(_, _)
BitsValFrom(x, i) ==
    IF i > 30 THEN 0 ELSE x[i] * (2 ^ i) + BitsValFrom(x, i + 1)

\* the number a word holds, exact when its bits above 30 are zero: the set
\* indices of the caches explored, the addresses handed to the reference
FromBits(x) == BitsValFrom(x, 0)

\* 1 << n evaluated in int; exact for 0 <= n <= 30
IntShl1(n) == 2 ^ n

----------------------------------------------------------------------------
(* The trace file: a line is held as what strtok cuts it into.  Op is      *)
(* linebuf[0]; Addr, Size and Junk are the tokens, a token being the       *)
(* sequence of its characters and <<>> standing for NULL (strtok never     *)
(* returns an empty token); overlong says that fgets filled the buffer     *)
(* without reaching the newline.                                           *)

NULL == <<>>

Line(op, addr, size, junk, over) ==
    [Op |-> op, Addr |-> addr, Size |-> size, Junk |-> junk, overlong |-> over]

NoLine == Line("", NULL, NULL, NULL, FALSE)

\* the digits of base 16, by value: the characters strtoul takes for the
\* digit of value i - 1, in either case
HexChars == << {"0"}, {"1"}, {"2"}, {"3"}, {"4"}, {"5"}, {"6"}, {"7"},
               {"8"}, {"9"}, {"a", "A"}, {"b", "B"}, {"c", "C"},
               {"d", "D"}, {"e", "E"}, {"f", "F"} >>

\* the vertical tab, '\v' in C (byte 11): the character itself stands
\* between the quotes, a string of the model having no escape for it
VerticalTab == ""

\* isspace in the "C" locale: the characters strtoul skips before a number
SpaceChars == {" ", "\t", "\n", VerticalTab, "\f", "\r"}

\* the value of character c as a digit of the base (2 to 16), or -1
DigitVal(c, base) ==
    IF \E i \in 1 .. base : c \in HexChars[i]
    THEN (CHOOSE i \in 1 .. base : c \in HexChars[i]) - 1
    ELSE -1

ZeroWord == [i \in BitIdx |-> 0]

\* l * base + d in unsigned long, and whether it went over ULONG_MAX; an
\* unsigned long is held, while strtoul reads it, as four limbs of 16 bits,
\* the lowest first
MulAddLimbs(l, base, d) ==
    LET t1 == l[1] * base + d
        t2 == l[2] * base + (t1 \div 65536)
        t3 == l[3] * base + (t2 \div 65536)
        t4 == l[4] * base + (t3 \div 65536)
    IN  [limbs |-> <<t1 % 65536, t2 % 65536, t3 % 65536, t4 % 65536>>,
         over |-> t4 >= 65536]

\* -l in unsigned long: ~l + 1
NegLimbs(l) ==
    MulAddLimbs(<<65535 - l[1], 65535 - l[2], 65535 - l[3], 65535 - l[4]>>,
                1, 1).limbs

\* the 64-bit word of four limbs
WordOfLimbs(l) ==
    [i \in BitIdx |-> (l[(i \div 16) + 1] \div (2 ^ (i % 16))) % 2]

\* the number strtoul has read before the first digit
NoDigits == [limbs |-> <<0, 0, 0, 0>>, overflow |-> FALSE]

\* acc * base + d, overflow kept once it went over ULONG_MAX
strtoulDigit(acc, base, d) ==
    IF acc.overflow THEN acc
    ELSE LET r == MulAddLimbs(acc.limbs, base, d)
         IN  [limbs |-> r.limbs, overflow |-> r.over]

RECURSIVE strtoulFrom(_, _, _, _)
\* the digits of tok from position i on: the number read, and the position
\* of the last digit
strtoulFrom(tok, base, i, acc) ==
    IF i > Len(tok) \/ DigitVal(tok[i], base) < 0
    THEN [acc |-> acc, endptr |-> i - 1]
    ELSE strtoulFrom(tok, base, i + 1,
                     strtoulDigit(acc, base, DigitVal(tok[i], base)))

RECURSIVE SkipSpace(_, _)
\* the first position of tok from i on that holds no white space
SkipSpace(tok, i) ==
    IF i <= Len(tok) /\ tok[i] \in SpaceChars THEN SkipSpace(tok, i + 1) ELSE i

\* strtoul(tok, &endptr, base) of the C library, base 10 or 16: white space
\* skipped, an optional sign, with base 16 an optional 0x or 0X when a digit
\* follows it, then the longest run of digits.  value is the unsigned long
\* returned, a 64-bit word: the number read, negated when the sign is -,
\* ULONG_MAX when the number does not fit.  endptr is the number of
\* characters consumed, 0 when there is no digit.
strtoul(tok, base) ==
    LET i0 == SkipSpace(tok, 1)
        signed == i0 <= Len(tok) /\ tok[i0] \in {"+", "-"}
        negative == signed /\ tok[i0] = "-"
        i1 == IF signed THEN i0 + 1 ELSE i0
        prefixed == /\ base = 16
                    /\ i1 + 2 <= Len(tok)
                    /\ tok[i1] = "0"
                    /\ tok[i1 + 1] \in {"x", "X"}
                    /\ DigitVal(tok[i1 + 2], 16) >= 0
        i2 == IF prefixed THEN i1 + 2 ELSE i1
        r == strtoulFrom(tok, base, i2, NoDigits)
    IN  IF r.endptr < i2 THEN [value |-> ZeroWord, endptr |-> 0]
        ELSE [value |-> IF r.acc.overflow THEN AllOnes
                        ELSE IF negative
                        THEN WordOfLimbs(NegLimbs(r.acc.limbs))
                        ELSE WordOfLimbs(r.acc.limbs),
              endptr |-> r.endptr]

\* the address tokens of the traces explored: 0x0, 0x1, 0x2 and 0x10, in
\* the spellings strtoul takes
AddrTokens ==
    {<<"0">>, <<"+", "1">>, <<" ", VerticalTab, "2">>, <<"0", "X", "1", "0">>}

WellFormedLines ==
    { Line(op, a, <<"4">>, NULL, FALSE) : op \in {"L", "S"}, a \in AddrTokens }

MalformedLines ==
    { Line("M", <<"0">>, <<"4">>, NULL, FALSE),        \* bad operation
      Line("S", <<"1", "g">>, <<"4">>, NULL, FALSE),   \* address, then garbage
      Line("L", <<"0", "x">>, <<"4">>, NULL, FALSE),   \* 0x and no digit
      Line("L", <<"0">>, <<"x">>, NULL, FALSE),        \* size unparsable
      Line("L", <<"0">>, NULL, NULL, FALSE),           \* size missing
      Line("S", <<"1">>, <<"4">>, <<"2">>, FALSE),     \* trailing token
      Line("L", <<"2">>, <<"4">>, NULL, TRUE) }        \* line too long

Lines == WellFormedLines \cup MalformedLines

\* runs of ./csim -s 1 -E 1 -b 4 on files of up to five lines that load or
\* store at 0x0, 0x14 and 0x40
ScenarioLines ==
    { Line(op, a, <<"4">>, NULL, FALSE) :
        op \in {"L", "S"}, a \in {<<"0">>, <<"1", "4">>, <<"4", "0">>} }

\* every line a trace file of the runs explored may hold
TraceLines == Lines \cup ScenarioLines

----------------------------------------------------------------------------
(* The cache.  The operators below take and return the "world" the C       *)
(* functions work on through globals and pointers:                         *)
(*   w.cache      cache_simulator->sets                                     *)
(*   w.stats      *stats                                                    *)
(*   w.timeStamp  timeStamp                                                 *)
(*   w.out        the report of the access (what the verbose mode prints,  *)
(*                with the line touched and the tag it held)                *)

NullCache == <<>>

\* no tag: what the report of an access holds when no line was evicted
NoTag == <<>>

NewLine == [valid |-> 0, dirty |-> 0, tag |-> ZeroWord, lru |-> 0]

ZeroStats == [hits |-> 0, misses |-> 0, evictions |-> 0,
              dirty_bytes |-> 0, dirty_evictions |-> 0]

NoOut == [kind |-> "none", set |-> 0, tag |-> ZeroWord, line |-> 0,
          evicted |-> NoTag, evdirty |-> 0]

\* initCache: no_sets sets of E lines, all fields zero, line_index zero
initCache(s, E, b) ==
    LET no_sets == IntShl1(s)
    IN  [i \in 0 .. (no_sets - 1) |->
            [lines |-> [j \in 0 .. (E - 1) |-> NewLine], line_index |-> 0]]

\* what the bytes malloc returns may hold before the program writes them:
\* some of the values of a line, of a set's cursor and of the statistics
HeapLines == [valid : {0, 1}, dirty : {0, 1}, tag : {ZeroWord, AllOnes},
              lru : {0, 1}]

HeapSets == [line : HeapLines, line_index : {0, 1}]

HeapStats == {ZeroStats,
              [hits |-> 1, misses |-> 1, evictions |-> 1,
               dirty_bytes |-> 1, dirty_evictions |-> 1]}

\* a set as initCache's mallocs leave it: E lines and a cursor, holding what
\* the heap held
malloc_set(heap, E) ==
    [lines |-> [j \in 0 .. (E - 1) |-> heap.line],
     line_index |-> heap.line_index]

\* a mutant of initCacheFrom: the valid bit of the lines not written
initCacheFromNoValid(heap, s, E, b) ==
    LET no_sets == IntShl1(s)
        fresh == malloc_set(heap, E)
    IN  [i \in 0 .. (no_sets - 1) |->
            [fresh EXCEPT
               !.line_index = 0,
               !.lines = [j \in 0 .. (E - 1) |->
                            [fresh.lines[j] EXCEPT !.dirty = 0,
                                                   !.tag = ZeroWord,
                                                   !.lru = 0]]]]

\* initCache from the memory malloc returns: the cursor of every set and the
\* four fields of every line are written, over what the heap held
initCacheFrom(heap, s, E, b) ==
    LET no_sets == IntShl1(s)
        fresh == malloc_set(heap, E)
    IN  [i \in 0 .. (no_sets - 1) |->
            [fresh EXCEPT
               !.line_index = 0,
               !.lines = [j \in 0 .. (E - 1) |->
                            [fresh.lines[j] EXCEPT !.valid = 0,
                                                   !.dirty = 0,
                                                   !.tag = ZeroWord,
                                                   !.lru = 0]]]]

\* a mutant of update_cacheline: the clock read but not advanced
update_cachelineNoTick(w, si, li, tag_index, Op) ==
    LET newline == [valid |-> 1,
                    dirty |-> IF Op = "S" THEN 1 ELSE 0,
                    tag |-> tag_index,
                    lru |-> w.timeStamp]
        cache1 == IF li \in DOMAIN w.cache[si].lines
                  THEN [w.cache EXCEPT ![si].lines[li] = newline]
                  ELSE w.cache
    IN  [w EXCEPT !.cache = cache1]

\* update_cacheline on line li of set si.  A line index outside the array
\* (only with lines_no = 0) writes outside the allocation: the write is not
\* kept by the model, the clock still advances.
update_cacheline(w, si, li, tag_index, Op) ==
    LET newline == [valid |-> 1,
                    dirty |-> IF Op = "S" THEN 1 ELSE 0,
                    tag |-> tag_index,
                    lru |-> w.timeStamp]
        cache1 == IF li \in DOMAIN w.cache[si].lines
                  THEN [w.cache EXCEPT ![si].lines[li] = newline]
                  ELSE w.cache
    IN  [w EXCEPT !.cache = cache1, !.timeStamp = w.timeStamp + 1]

RECURSIVE line2replaceFrom(_, _, _, _, _)
line2replaceFrom(lines, n, i, min_lru, lru_index) ==
    IF i >= n THEN lru_index
    ELSE IF min_lru > lines[i].lru
         THEN line2replaceFrom(lines, n, i + 1, lines[i].lru, i)
         ELSE line2replaceFrom(lines, n, i + 1, min_lru, lru_index)

\* a mutant of line2replace: the comparison turned round (most recent line)
line2replaceMax(set, n) ==
    CHOOSE i \in 0 .. (n - 1) :
        \A j \in 0 .. (n - 1) : set.lines[j].lru <= set.lines[i].lru

\* line2replace: ascending scan keeping the first strictly smaller lru.  With
\* lines_no = 0 the initial read of lines[0].lru is outside the array and the
\* loop does not run: the result is 0 whatever was read.
line2replace(set, n) ==
    IF n = 0 THEN 0
    ELSE line2replaceFrom(set.lines, n, 0, set.lines[0].lru, 0)

RECURSIVE HitIndexFrom(_, _, _, _)
\* the loop of detect_hit: the first valid line holding the tag, or the line count n
HitIndexFrom(lines, n, tag_index, i) ==
    IF i >= n THEN n
    ELSE IF lines[i].valid = 1 /\ lines[i].tag = tag_index THEN i
         ELSE HitIndexFrom(lines, n, tag_index, i + 1)

\* a mutant of detect_hit: the store on a hit counts the block again
detect_hitRecount(w, si, tag_index, n, b, Op) ==
    LET i == HitIndexFrom(w.cache[si].lines, n, tag_index, 0)
    IN  IF i >= n THEN [hit |-> FALSE, w |-> w]
        ELSE [hit |-> TRUE,
              w |-> [w EXCEPT
                  !.stats.hits = @ + 1,
                  !.cache[si].lines[i].lru = w.timeStamp,
                  !.cache[si].lines[i].dirty = IF Op = "S" THEN 1 ELSE @,
                  !.stats.dirty_bytes =
                      IF Op = "S" THEN @ + IntShl1(b) ELSE @,
                  !.timeStamp = @ + 1,
                  !.out = [kind |-> "hit", set |-> si, tag |-> tag_index,
                           line |-> i, evicted |-> NoTag, evdirty |-> 0]]]

\* a mutant of detect_hit: the scan stops one line short
detect_hitShort(w, si, tag_index, n, b, Op) ==
    LET i == HitIndexFrom(w.cache[si].lines, n - 1, tag_index, 0)
    IN  IF i >= n - 1 THEN [hit |-> FALSE, w |-> w]
        ELSE LET gets_dirty == Op = "S" /\ w.cache[si].lines[i].dirty # 1
             IN  [hit |-> TRUE,
                  w |-> [w EXCEPT
                      !.stats.hits = @ + 1,
                      !.cache[si].lines[i].lru = w.timeStamp,
                      !.cache[si].lines[i].dirty = IF gets_dirty THEN 1 ELSE @,
                      !.stats.dirty_bytes =
                          IF gets_dirty THEN @ + IntShl1(b) ELSE @,
                      !.timeStamp = @ + 1,
                      !.out = [kind |-> "hit", set |-> si, tag |-> tag_index,
                               line |-> i, evicted |-> NoTag, evdirty |-> 0]]]

\* a mutant of detect_hit: a hit does not refresh the line's lru
detect_hitNoTouch(w, si, tag_index, n, b, Op) ==
    LET i == HitIndexFrom(w.cache[si].lines, n, tag_index, 0)
    IN  IF i >= n THEN [hit |-> FALSE, w |-> w]
        ELSE LET gets_dirty == Op = "S" /\ w.cache[si].lines[i].dirty # 1
             IN  [hit |-> TRUE,
                  w |-> [w EXCEPT
                      !.stats.hits = @ + 1,
                      !.cache[si].lines[i].dirty = IF gets_dirty THEN 1 ELSE @,
                      !.stats.dirty_bytes =
                          IF gets_dirty THEN @ + IntShl1(b) ELSE @,
                      !.timeStamp = @ + 1,
                      !.out = [kind |-> "hit", set |-> si, tag |-> tag_index,
                               line |-> i, evicted |-> NoTag, evdirty |-> 0]]]

\* a mutant of detect_hit: a hit of any operation makes a clean line dirty
detect_hitAnyOp(w, si, tag_index, n, b, Op) ==
    LET i == HitIndexFrom(w.cache[si].lines, n, tag_index, 0)
    IN  IF i >= n THEN [hit |-> FALSE, w |-> w]
        ELSE LET gets_dirty == w.cache[si].lines[i].dirty # 1
             IN  [hit |-> TRUE,
                  w |-> [w EXCEPT
                      !.stats.hits = @ + 1,
                      !.cache[si].lines[i].lru = w.timeStamp,
                      !.cache[si].lines[i].dirty = IF gets_dirty THEN 1 ELSE @,
                      !.stats.dirty_bytes =
                          IF gets_dirty THEN @ + IntShl1(b) ELSE @,
                      !.timeStamp = @ + 1,
                      !.out = [kind |-> "hit", set |-> si, tag |-> tag_index,
                               line |-> i, evicted |-> NoTag, evdirty |-> 0]]]

\* detect_hit: [hit, w]
detect_hit(w, si, tag_index, n, b, Op) ==
    LET i == HitIndexFrom(w.cache[si].lines, n, tag_index, 0)
    IN  IF i >= n THEN [hit |-> FALSE, w |-> w]
        ELSE LET gets_dirty == Op = "S" /\ w.cache[si].lines[i].dirty # 1
             IN  [hit |-> TRUE,
                  w |-> [w EXCEPT
                      !.stats.hits = @ + 1,
                      !.cache[si].lines[i].lru = w.timeStamp,
                      !.cache[si].lines[i].dirty = IF gets_dirty THEN 1 ELSE @,
                      !.stats.dirty_bytes =
                          IF gets_dirty THEN @ + IntShl1(b) ELSE @,
                      !.timeStamp = @ + 1,
                      !.out = [kind |-> "hit", set |-> si, tag |-> tag_index,
                               line |-> i, evicted |-> NoTag, evdirty |-> 0]]]

\* a mutant of detect_coldmiss: the fill of a Store not counted in
\* dirty_bytes
detect_coldmissUncounted(w, si, tag_index, b, Op) ==
    LET li == w.cache[si].line_index
        w1 == update_cacheline(w, si, li, tag_index, Op)
    IN  [w1 EXCEPT !.cache[si].line_index = @ + 1,
                   !.out = [kind |-> "miss", set |-> si, tag |-> tag_index,
                            line |-> li, evicted |-> NoTag, evdirty |-> 0]]

\* a mutant of detect_coldmiss: the fill cursor left where it was
detect_coldmissStay(w, si, tag_index, b, Op) ==
    LET li == w.cache[si].line_index
        w1 == update_cacheline(w, si, li, tag_index, Op)
        w2 == IF w1.cache[si].lines[li].dirty = 1
              THEN [w1 EXCEPT !.stats.dirty_bytes = @ + IntShl1(b)]
              ELSE w1
    IN  [w2 EXCEPT !.out = [kind |-> "miss", set |-> si, tag |-> tag_index,
                            line |-> li, evicted |-> NoTag, evdirty |-> 0]]

\* detect_coldmiss: fill the line at line_index
detect_coldmiss(w, si, tag_index, b, Op) ==
    LET li == w.cache[si].line_index
        w1 == update_cacheline(w, si, li, tag_index, Op)
        w2 == IF w1.cache[si].lines[li].dirty = 1
              THEN [w1 EXCEPT !.stats.dirty_bytes = @ + IntShl1(b)]
              ELSE w1
    IN  [w2 EXCEPT !.cache[si].line_index = @ + 1,
                   !.out = [kind |-> "miss", set |-> si, tag |-> tag_index,
                            line |-> li, evicted |-> NoTag, evdirty |-> 0]]

\* a mutant of detect_othermiss: the bytes of a dirty victim left in
\* dirty_bytes
detect_othermissKeep(w, si, tag_index, b, n, Op, ub) ==
    LET set == w.cache[si]
        lru_index == line2replace(set, n)
        inside == lru_index \in DOMAIN set.lines
        dirty0 == IF inside THEN set.lines[lru_index].dirty ELSE ub.before
        tag0 == IF inside THEN set.lines[lru_index].tag ELSE NoTag
        w1 == IF dirty0 = 1
              THEN [w EXCEPT
                      !.stats.dirty_evictions = @ + IntShl1(b)]
              ELSE w
        w2 == update_cacheline(w1, si, lru_index, tag_index, Op)
        dirty1 == IF inside THEN w2.cache[si].lines[lru_index].dirty
                  ELSE ub.after
        w3 == IF dirty1 = 1
              THEN [w2 EXCEPT !.stats.dirty_bytes = @ + IntShl1(b)]
              ELSE w2
        cache4 == IF inside
                  THEN [w3.cache EXCEPT ![si].lines[lru_index].lru = w3.timeStamp]
                  ELSE w3.cache
    IN  [w3 EXCEPT !.cache = cache4,
                   !.timeStamp = @ + 1,
                   !.stats.evictions = @ + 1,
                   !.out = [kind |-> "eviction", set |-> si, tag |-> tag_index,
                            line |-> lru_index, evicted |-> tag0,
                            evdirty |-> dirty0]]


\* a mutant of detect_othermiss: the eviction not counted
detect_othermissUncounted(w, si, tag_index, b, n, Op, ub) ==
    LET set == w.cache[si]
        lru_index == line2replace(set, n)
        inside == lru_index \in DOMAIN set.lines
        dirty0 == IF inside THEN set.lines[lru_index].dirty ELSE ub.before
        tag0 == IF inside THEN set.lines[lru_index].tag ELSE NoTag
        w1 == IF dirty0 = 1
              THEN [w EXCEPT
                      !.stats.dirty_evictions = @ + IntShl1(b),
                      !.stats.dirty_bytes = @ - IntShl1(b)]
              ELSE w
        w2 == update_cacheline(w1, si, lru_index, tag_index, Op)
        dirty1 == IF inside THEN w2.cache[si].lines[lru_index].dirty
                  ELSE ub.after
        w3 == IF dirty1 = 1
              THEN [w2 EXCEPT !.stats.dirty_bytes = @ + IntShl1(b)]
              ELSE w2
        cache4 == IF inside
                  THEN [w3.cache EXCEPT ![si].lines[lru_index].lru = w3.timeStamp]
                  ELSE w3.cache
    IN  [w3 EXCEPT !.cache = cache4,
                   !.timeStamp = @ + 1,
                   !.out = [kind |-> "eviction", set |-> si, tag |-> tag_index,
                            line |-> lru_index, evicted |-> tag0,
                            evdirty |-> dirty0]]

\* detect_othermiss: replace the line line2replace names.  ub gives what the
\* two reads of lines[lru_index].dirty return when lru_index is outside the
\* array (lines_no = 0), where the C standard leaves them undefined.
detect_othermiss(w, si, tag_index, b, n, Op, ub) ==
    LET set == w.cache[si]
        lru_index == line2replace(set, n)
        inside == lru_index \in DOMAIN set.lines
        dirty0 == IF inside THEN set.lines[lru_index].dirty ELSE ub.before
        tag0 == IF inside THEN set.lines[lru_index].tag ELSE NoTag
        w1 == IF dirty0 = 1
              THEN [w EXCEPT
                      !.stats.dirty_evictions = @ + IntShl1(b),
                      !.stats.dirty_bytes = @ - IntShl1(b)]
              ELSE w
        w2 == update_cacheline(w1, si, lru_index, tag_index, Op)
        dirty1 == IF inside THEN w2.cache[si].lines[lru_index].dirty
                  ELSE ub.after
        w3 == IF dirty1 = 1
              THEN [w2 EXCEPT !.stats.dirty_bytes = @ + IntShl1(b)]
              ELSE w2
        cache4 == IF inside
                  THEN [w3.cache EXCEPT ![si].lines[lru_index].lru = w3.timeStamp]
                  ELSE w3.cache
    IN  [w3 EXCEPT !.cache = cache4,
                   !.timeStamp = @ + 1,
                   !.stats.evictions = @ + 1,
                   !.out = [kind |-> "eviction", set |-> si, tag |-> tag_index,
                            line |-> lru_index, evicted |-> tag0,
                            evdirty |-> dirty0]]

\* a mutant of SetMask: one bit too many kept
SetMaskWide(s) == Shr(AllOnes, WordBits - s - 1)

\* ((unsigned long)-1) >> (64 - set_bits), for 1 <= set_bits <= 63
SetMask(s) == Shr(AllOnes, WordBits - s)

\* a mutant of SetIndexWord: the block offset not shifted out
SetIndexWordUnshifted(x, s, b) ==
    IF s = 0 THEN ZeroWord ELSE BitAnd(x, SetMask(s))

\* the set index update_cache decodes from the address word x
SetIndexWord(x, s, b) ==
    IF s = 0 THEN ZeroWord ELSE BitAnd(Shr(x, b), SetMask(s))

\* the tag update_cache decodes from the address word x
TagWord(x, s, b) == Shr(x, b + s)

\* the set index update_cache decodes from the address
SetIndex(address, s, b) == FromBits(SetIndexWord(address, s, b))

\* a mutant of TagIndex: one bit too many shifted out
TagIndexOff(address, s, b) == Shr(address, b + s + 1)

\* the tag update_cache decodes from the address
TagIndex(address, s, b) == TagWord(address, s, b)

\* a mutant of update_cache: the fill test off by one
update_cacheEarly(w, address, s, b, n, Op, ub) ==
    LET si == SetIndex(address, s, b)
        tag_index == TagIndex(address, s, b)
        h == detect_hit(w, si, tag_index, n, b, Op)
    IN  IF h.hit THEN h.w
        ELSE LET w1 == [w EXCEPT !.stats.misses = @ + 1]
             IN  IF w1.cache[si].line_index + 1 < n
                 THEN detect_coldmiss(w1, si, tag_index, b, Op)
                 ELSE detect_othermiss(w1, si, tag_index, b, n, Op, ub)

\* a mutant of update_cache: the miss counted before the hit test
update_cacheMissFirst(w, address, s, b, n, Op, ub) ==
    LET si == SetIndex(address, s, b)
        tag_index == TagIndex(address, s, b)
        w1 == [w EXCEPT !.stats.misses = @ + 1]
        h == detect_hit(w1, si, tag_index, n, b, Op)
    IN  IF h.hit THEN h.w
        ELSE IF w1.cache[si].line_index < n
             THEN detect_coldmiss(w1, si, tag_index, b, Op)
             ELSE detect_othermiss(w1, si, tag_index, b, n, Op, ub)

\* update_cache
update_cache(w, address, s, b, n, Op, ub) ==
    LET si == SetIndex(address, s, b)
        tag_index == TagIndex(address, s, b)
        h == detect_hit(w, si, tag_index, n, b, Op)
    IN  IF h.hit THEN h.w
        ELSE LET w1 == [w EXCEPT !.stats.misses = @ + 1]
             IN  IF w1.cache[si].line_index < n
                 THEN detect_coldmiss(w1, si, tag_index, b, Op)
                 ELSE detect_othermiss(w1, si, tag_index, b, n, Op, ub)

----------------------------------------------------------------------------
(* One line of the trace, as the body of process_trace_file's loop reads   *)
(* it: the checks in the order of the code, each ending the program.       *)

\* a mutant of ParseLine: the test of the operation character left out
ParseLineAnyOp(ln) ==
    LET a == strtoul(ln.Addr, 16)
        z == strtoul(ln.Size, 10)
        err == IF ln.overlong THEN "overlong"
               ELSE IF ln.Op = "" \/ ln.Addr = NULL \/ ln.Size = NULL
                    THEN "missing"
               ELSE IF ln.Junk # NULL THEN "junk"
               ELSE IF a.endptr = 0 \/ a.endptr < Len(ln.Addr) THEN "address"
               ELSE IF z.endptr = 0 \/ z.endptr < Len(ln.Size) THEN "size"
               ELSE "ok"
    IN  [err |-> err, Op |-> ln.Op, address |-> a.value, size |-> z.value]

ParseLine(ln) ==
    LET a == strtoul(ln.Addr, 16)
        z == strtoul(ln.Size, 10)
        err == IF ln.overlong THEN "overlong"
               ELSE IF ln.Op = "" \/ ln.Addr = NULL \/ ln.Size = NULL
                    THEN "missing"
               ELSE IF ln.Junk # NULL THEN "junk"
               ELSE IF ln.Op # "L" /\ ln.Op # "S" THEN "operation"
               ELSE IF a.endptr = 0 \/ a.endptr < Len(ln.Addr) THEN "address"
               ELSE IF z.endptr = 0 \/ z.endptr < Len(ln.Size) THEN "size"
               ELSE "ok"
    IN  [err |-> err, Op |-> ln.Op, address |-> a.value, size |-> z.value]

\* what the loop body makes of each line of the traces explored: ParseLine,
\* evaluated once per line
Parsed == [ln \in TraceLines |-> ParseLine(ln)]

\* a mutant of ConfigRejected: the sum compared with > in place of >=
ConfigRejectedAbove(s, b) == b >= 64 \/ s >= 64 \/ s + b > 64

\* main's test of the configuration before initCache
ConfigRejected(s, b) == b >= 64 \/ s >= 64 \/ s + b >= 64

----------------------------------------------------------------------------
(* The reference: a set-associative cache with true LRU replacement, each  *)
(* set a list of resident blocks [tag, dirty], least recently used first.  *)

RefSetIndex(address, s, b) == (address \div (2 ^ b)) % (2 ^ s)

RefTag(address, s, b) == address \div (2 ^ (s + b))

RefInit(s) == [sets |-> [i \in 0 .. (2 ^ s - 1) |-> <<>>],
               stats |-> ZeroStats,
               kind |-> "none",
               evicted |-> -1]

\* q without its i-th element
RefRemove(q, i) == SubSeq(q, 1, i - 1) \o SubSeq(q, i + 1, Len(q))

RefAccess(r, address, Op, s, b, E) ==
    LET si == RefSetIndex(address, s, b)
        tag == RefTag(address, s, b)
        q == r.sets[si]
        bs == 2 ^ b
        st == Op = "S"
    IN  IF \E i \in 1 .. Len(q) : q[i].tag = tag
        THEN LET i == CHOOSE k \in 1 .. Len(q) : q[k].tag = tag
                 d == q[i].dirty \/ st
             IN  [r EXCEPT
                     !.sets[si] = Append(RefRemove(q, i), [tag |-> tag, dirty |-> d]),
                     !.stats.hits = @ + 1,
                     !.stats.dirty_bytes = IF d /\ ~q[i].dirty THEN @ + bs ELSE @,
                     !.kind = "hit",
                     !.evicted = -1]
        ELSE IF Len(q) < E
        THEN [r EXCEPT
                 !.sets[si] = Append(q, [tag |-> tag, dirty |-> st]),
                 !.stats.misses = @ + 1,
                 !.stats.dirty_bytes = IF st THEN @ + bs ELSE @,
                 !.kind = "miss",
                 !.evicted = -1]
        ELSE IF E = 0
        THEN [r EXCEPT !.stats.misses = @ + 1, !.kind = "miss", !.evicted = -1]
        ELSE LET v == Head(q)
                 gone == IF v.dirty THEN bs ELSE 0
                 come == IF st THEN bs ELSE 0
             IN  [r EXCEPT
                     !.sets[si] = Append(Tail(q), [tag |-> tag, dirty |-> st]),
                     !.stats.misses = @ + 1,
                     !.stats.evictions = @ + 1,
                     !.stats.dirty_evictions = @ + gone,
                     !.stats.dirty_bytes = @ - gone + come,
                     !.kind = "eviction",
                     !.evicted = v.tag]

NoRef == [sets |-> <<>>, stats |-> ZeroStats, kind |-> "none", evicted |-> -1]

----------------------------------------------------------------------------
(* The program. *)

NoSummary == <<>>

\* configurations main accepts: s + b < 64
AcceptedBits == {<<s, b>> : s \in 0 .. MaxS, b \in 0 .. MaxB}

\* configurations main rejects
RejectedBits == {<<64, 0>>, <<0, 64>>, <<1, 63>>, <<70, 2>>}

NoProbe == [fn |-> "none"]

\* the state main starts from, for the (s, b) pairs and the values of E given
InitConfig(bits, E_values) ==
    /\ pc = "main"
    /\ \E sb \in bits : set_bits = sb[1] /\ block_bits = sb[2]
    /\ lines_no \in E_values
    /\ cache_simulator = NullCache
    /\ stats = ZeroStats
    /\ timeStamp = 0
    /\ linebuf = NoLine
    /\ nread = 0
    /\ applied = 0
    /\ out = NoOut
    /\ summary = NoSummary
    /\ ref = NoRef
    /\ hist = <<>>
    /\ probe = NoProbe

InitWith(E_values) == InitConfig(AcceptedBits \cup RejectedBits, E_values)

\* the runs with at least one line per set
Init == InitWith(1 .. MaxE)

\* every run, -E 0 included
InitMain == InitWith(0 .. MaxE)

\* main from the test of s and b to the opening of the trace file
Main ==
    /\ pc = "main"
    /\ IF ConfigRejected(set_bits, block_bits)
       THEN /\ pc' = "exit1"
            /\ UNCHANGED <<cache_simulator, ref>>
       ELSE /\ cache_simulator' = initCache(set_bits, lines_no, block_bits)
            /\ ref' = RefInit(set_bits)
            /\ \E opened \in BOOLEAN : pc' = IF opened THEN "trace" ELSE "exit1"
    /\ UNCHANGED <<set_bits, block_bits, lines_no, stats, timeStamp, linebuf,
                   nread, applied, out, summary, hist, probe>>

\* what a read outside a zero-length array of lines may give, and whether the
\* access outside the allocation ends the program
UBReads ==
    IF lines_no = 0
    THEN [before : {0, 1}, after : {0, 1}, crash : {FALSE}]
         \cup {[before |-> 0, after |-> 0, crash |-> TRUE]}
    ELSE {[before |-> 0, after |-> 0, crash |-> FALSE]}

World == [cache |-> cache_simulator, stats |-> stats,
          timeStamp |-> timeStamp, out |-> out]

\* one turn of process_trace_file's loop: fgets gives a line, the line is
\* parsed and checked, update_cache is called.  exit(1) and a crash end the
\* process: its cache, and what observes the cache (out, ref), are gone.
ReadLineOf(file_lines, limit) ==
    /\ pc = "trace"
    /\ nread < limit
    /\ \E ln \in file_lines, ub \in UBReads :
         \E p \in {Parsed[ln]} :
         \E w \in {IF p.err = "ok"
                   THEN update_cache(World, p.address, set_bits, block_bits,
                                     lines_no, p.Op, ub)
                   ELSE World} :
             /\ linebuf' = ln
             /\ nread' = nread + 1
             /\ IF p.err # "ok"
                THEN /\ pc' = "exit1"
                     /\ cache_simulator' = NullCache
                     /\ out' = NoOut
                     /\ ref' = NoRef
                     /\ UNCHANGED <<stats, timeStamp, applied>>
                ELSE IF ub.crash
                THEN /\ pc' = "crash"
                     /\ applied' = applied + 1
                     /\ cache_simulator' = NullCache
                     /\ out' = NoOut
                     /\ ref' = NoRef
                     /\ UNCHANGED <<stats, timeStamp>>
                ELSE /\ pc' = "trace"
                     /\ cache_simulator' = w.cache
                     /\ stats' = w.stats
                     /\ timeStamp' = w.timeStamp
                     /\ out' = w.out
                     /\ applied' = applied + 1
                     /\ ref' = RefAccess(ref, FromBits(p.address), p.Op,
                                         set_bits, block_bits, lines_no)
    /\ UNCHANGED <<set_bits, block_bits, lines_no, summary, probe>>

\* a turn of the loop on a file of up to MaxTrace lines
ReadLine == ReadLineOf(Lines, MaxTrace) /\ UNCHANGED hist

\* fgets returns NULL: process_trace_file returns (its linebuf is gone),
\* freeCache, printSummary(stats)
EndOfFile ==
    /\ pc = "trace"
    /\ pc' = "done"
    /\ cache_simulator' = NullCache
    /\ summary' = stats
    /\ linebuf' = NoLine
    /\ out' = NoOut
    /\ ref' = NoRef
    /\ UNCHANGED <<set_bits, block_bits, lines_no, stats, timeStamp, nread,
                   applied, hist, probe>>

Next == Main \/ ReadLine \/ EndOfFile

Spec == Init /\ [][Next]_vars

SpecMain == InitMain /\ [][Next]_vars

\* the (s, b) pairs of the recorded runs: the widest block, and one pair
\* that main rejects
ReplayBits == {<<s, MaxB>> : s \in 0 .. MaxS} \cup {<<1, 63>>}

\* the well-formed trace files of up to MaxReplay lines
Files == UNION { [1 .. n -> WellFormedLines] : n \in 0 .. MaxReplay }

\* runs on a trace file given when the run starts, held in probe.lines, with
\* one line per set and with the most
InitFile ==
    /\ pc = "main"
    /\ \E sb \in ReplayBits : set_bits = sb[1] /\ block_bits = sb[2]
    /\ lines_no \in {1, MaxE}
    /\ cache_simulator = NullCache
    /\ stats = ZeroStats
    /\ timeStamp = 0
    /\ linebuf = NoLine
    /\ nread = 0
    /\ applied = 0
    /\ out = NoOut
    /\ summary = NoSummary
    /\ ref = NoRef
    /\ hist = <<>>
    /\ \E f \in Files : probe = [fn |-> "file", lines |-> f]

\* a mutant of NextLine: the position in the file not advanced after the
\* first line
NextLineAgain == probe.lines[IF nread = 0 THEN 1 ELSE nread]

\* what fgets gives: the line after those already read
NextLine == probe.lines[nread + 1]

\* a turn of the loop on the file, the line applied recorded
ReadFile ==
    /\ ReadLineOf({NextLine}, Len(probe.lines))
    /\ hist' = IF pc' = "trace" THEN Append(hist, linebuf') ELSE <<>>

\* fgets returns NULL when, and only when, the file is exhausted
EndOfFileAt == nread = Len(probe.lines) /\ EndOfFile

NextFile == Main \/ ReadFile \/ EndOfFileAt

\* a step of the running program: main is left, a line is read, or the end
\* of the file is met.  Every step of NextFile is one, and one is possible
\* whenever main or the loop has control.
Runs ==
    /\ pc \in {"main", "trace"}
    /\ pc' \in {"main", "trace", "done", "exit1", "crash"}
    /\ nread' \in {nread, nread + 1}
    /\ pc' # pc \/ nread' # nread

\* the program is one thread that keeps running until it returns or exits
SpecFile == InitFile /\ [][NextFile]_vars /\ WF_<<pc, nread>>(Runs)

\* main's zeroing of the five counters of the block malloc returned for *stats
mainStats(block) ==
    [block EXCEPT !.hits = 0, !.misses = 0, !.evictions = 0,
                  !.dirty_bytes = 0, !.dirty_evictions = 0]

\* no execution has ended yet
NoRun == [pc |-> "none"]

\* the program executed twice on one command line and one trace file, held
\* in probe.lines: each execution gets what malloc gives it, and hist holds
\* the statistics before the first record and after each record
InitTwice ==
    /\ pc = "main"
    /\ set_bits = MaxS
    /\ block_bits = MaxB
    /\ lines_no \in {1, MaxE}
    /\ cache_simulator = NullCache
    /\ \E block \in HeapStats : stats = mainStats(block)
    /\ timeStamp = 0
    /\ linebuf = NoLine
    /\ nread = 0
    /\ applied = 0
    /\ out = NoOut
    /\ summary = NoSummary
    /\ ref = NoRef
    /\ hist = <<>>
    /\ \E f \in Files : probe = [fn |-> "twice", lines |-> f, first |-> NoRun]

\* main from the test of s and b to the opening of the trace file, initCache
\* working on the memory malloc returns
MainTwice ==
    /\ pc = "main"
    /\ IF ConfigRejected(set_bits, block_bits)
       THEN /\ pc' = "exit1"
            /\ UNCHANGED <<cache_simulator, ref, hist>>
       ELSE /\ \E heap \in HeapSets :
                 cache_simulator' =
                     initCacheFrom(heap, set_bits, lines_no, block_bits)
            /\ ref' = RefInit(set_bits)
            /\ hist' = <<stats>>
            /\ \E opened \in BOOLEAN : pc' = IF opened THEN "trace" ELSE "exit1"
    /\ UNCHANGED <<set_bits, block_bits, lines_no, stats, timeStamp, linebuf,
                   nread, applied, out, summary, probe>>

\* a turn of the loop on the file, the statistics it leaves recorded
ReadTwice ==
    /\ ReadLineOf({NextLine}, Len(probe.lines))
    /\ hist' = IF pc' = "trace" THEN Append(hist, stats') ELSE <<>>

\* the first execution has ended: what it left is kept in probe.first, and
\* the program is started again with the same arguments
RunAgain ==
    /\ pc \in {"done", "exit1"}
    /\ probe.first = NoRun
    /\ probe' = [probe EXCEPT
                   !.first = [pc |-> pc, after |-> hist, summary |-> summary]]
    /\ pc' = "main"
    /\ cache_simulator' = NullCache
    /\ \E block \in HeapStats : stats' = mainStats(block)
    /\ timeStamp' = 0
    /\ linebuf' = NoLine
    /\ nread' = 0
    /\ applied' = 0
    /\ out' = NoOut
    /\ summary' = NoSummary
    /\ ref' = NoRef
    /\ hist' = <<>>
    /\ UNCHANGED <<set_bits, block_bits, lines_no>>

NextTwice == MainTwice \/ ReadTwice \/ EndOfFileAt \/ RunAgain

SpecTwice == InitTwice /\ [][NextTwice]_vars

\* the file L 0,4 / L 14,4 / L 0,4 / S 40,4 / S 40,4
Scenario ==
    << Line("L", <<"0">>, <<"4">>, NULL, FALSE),
       Line("L", <<"1", "4">>, <<"4">>, NULL, FALSE),
       Line("L", <<"0">>, <<"4">>, NULL, FALSE),
       Line("S", <<"4", "0">>, <<"4">>, NULL, FALSE),
       Line("S", <<"4", "0">>, <<"4">>, NULL, FALSE) >>

InitScenario == InitConfig({<<1, 4>>}, {1})

ReadScenario ==
    /\ ReadLineOf(ScenarioLines, Len(Scenario))
    /\ hist' = IF pc' = "trace" THEN Append(hist, linebuf') ELSE <<>>

NextScenario == Main \/ ReadScenario \/ EndOfFile

SpecScenario == InitScenario /\ [][NextScenario]_vars

----------------------------------------------------------------------------
(* update_cache's decoding of the address, run alone on 64-bit words: the  *)
(* address is any word, s and b any pair main accepts.                     *)

\* the variables of the simulator, at rest while a function is run alone
AtRest ==
    /\ lines_no = 1
    /\ cache_simulator = NullCache
    /\ stats = ZeroStats
    /\ timeStamp = 0
    /\ linebuf = NoLine
    /\ nread = 0
    /\ applied = 0
    /\ out = NoOut
    /\ summary = NoSummary
    /\ ref = NoRef
    /\ hist = <<>>

\* the word with ones at the positions given
WordOf(ones) == [i \in BitIdx |-> IF i \in ones THEN 1 ELSE 0]

\* the addresses decoded: 0, all ones, single bits low, middle and top,
\* 0x51, alternating bits, and scattered bits
DecodeWords ==
    { ZeroWord, AllOnes, WordOf({0}), WordOf({31}), WordOf({32}),
      WordOf({WordBits - 1}), WordOf({0, 4, 6}),
      WordOf({i \in BitIdx : i % 2 = 1}), WordOf({5, 33, 62}) }

\* every (s, b) main accepts
DecodeBits ==
    { sb \in BitIdx \X BitIdx : ~ConfigRejected(sb[1], sb[2]) }

InitDecode ==
    /\ pc = "decode"
    /\ \E sb \in DecodeBits : set_bits = sb[1] /\ block_bits = sb[2]
    /\ \E x \in DecodeWords :
           probe = [fn |-> "decode", address |-> x, done |-> FALSE,
                    set_index |-> ZeroWord, tag_index |-> ZeroWord]
    /\ AtRest

\* update_cache's first three statements
Decode ==
    /\ pc = "decode"
    /\ ~probe.done
    /\ probe' = [probe EXCEPT
                    !.done = TRUE,
                    !.set_index = SetIndexWord(probe.address, set_bits,
                                               block_bits),
                    !.tag_index = TagWord(probe.address, set_bits,
                                          block_bits)]
    /\ UNCHANGED <<pc, set_bits, block_bits, lines_no, cache_simulator, stats,
                   timeStamp, linebuf, nread, applied, out, summary, ref, hist>>

NextDecode == Decode

SpecDecode == InitDecode /\ [][NextDecode]_vars

----------------------------------------------------------------------------
(* The shifts 1 << s (initCache) and 1 << block_bits (detect_hit,          *)
(* detect_coldmiss, detect_othermiss), run alone on 64-bit words for every *)
(* s and b below 64.  The literal 1 is an int: the shift is evaluated in   *)
(* 32 bits and its result converted to unsigned long.  For a count of 31   *)
(* the result is not representable in int, and for a count of 32 or more   *)
(* the behaviour is undefined; what the build makes of it is fixed when    *)
(* the run starts:                                                          *)
(*   "masked"  the processor takes the count modulo 32 (x86)               *)
(*   "zero"    a count of 32 or more shifts every bit out (ARM)            *)

Builds == {"masked", "zero"}

\* 1 << k for k < 32 as the unsigned long it converts to: INT_MIN, the
\* result for k = 31, is sign-extended
IntShl1Low(k) ==
    IF k < IntBits - 1 THEN WordOf({k})
    ELSE WordOf((IntBits - 1) .. (WordBits - 1))

\* (unsigned long)(1 << n), 0 <= n <= 63
IntShl1Word(n, build) ==
    IF n < IntBits THEN IntShl1Low(n)
    ELSE IF build = "masked" THEN IntShl1Low(n % IntBits)
    ELSE ZeroWord

\* the carry into bit i of x + y
RECURSIVE CarryInto(_, _, _)
CarryInto(x, y, i) ==
    IF i = 0 THEN 0
    ELSE (x[i - 1] + y[i - 1] + CarryInto(x, y, i - 1)) \div 2

\* x + y on unsigned long
AddWord(x, y) == [i \in BitIdx |-> (x[i] + y[i] + CarryInto(x, y, i)) % 2]

\* ~x
NotWord(x) == [i \in BitIdx |-> 1 - x[i]]

\* x - y on unsigned long
SubWord(x, y) == AddWord(AddWord(x, NotWord(y)), WordOf({0}))

\* s alone (b = 0) and b alone (s = 0), each from 0 to 63
ShiftBits == {<<n, 0>> : n \in BitIdx} \cup {<<0, n>> : n \in BitIdx}

InitShift ==
    /\ pc = "shift"
    /\ \E sb \in ShiftBits : set_bits = sb[1] /\ block_bits = sb[2]
    /\ \E build \in Builds :
           probe = [fn |-> "shift", build |-> build, step |-> "start",
                    no_sets |-> ZeroWord, dirty_bytes |-> ZeroWord,
                    dirty_evictions |-> ZeroWord]
    /\ AtRest

\* initCache: unsigned long no_sets = 1 << s
ShiftSets ==
    /\ pc = "shift"
    /\ probe.step = "start"
    /\ probe' = [probe EXCEPT
                    !.step = "sets",
                    !.no_sets = IntShl1Word(set_bits, probe.build)]
    /\ UNCHANGED <<pc, set_bits, block_bits, lines_no, cache_simulator, stats,
                   timeStamp, linebuf, nread, applied, out, summary, ref, hist>>

\* a store that makes a line dirty: stats->dirty_bytes += (1 << block_bits)
ShiftDirty ==
    /\ pc = "shift"
    /\ probe.step = "sets"
    /\ probe' = [probe EXCEPT
                    !.step = "dirty",
                    !.dirty_bytes =
                        AddWord(@, IntShl1Word(block_bits, probe.build))]
    /\ UNCHANGED <<pc, set_bits, block_bits, lines_no, cache_simulator, stats,
                   timeStamp, linebuf, nread, applied, out, summary, ref, hist>>

\* a load that evicts the dirty line:
\* stats->dirty_evictions += (1 << block_bits);
\* stats->dirty_bytes -= (1 << block_bits)
ShiftEvict ==
    /\ pc = "shift"
    /\ probe.step = "dirty"
    /\ probe' = [probe EXCEPT
                    !.step = "evicted",
                    !.dirty_evictions =
                        AddWord(@, IntShl1Word(block_bits, probe.build)),
                    !.dirty_bytes =
                        SubWord(@, IntShl1Word(block_bits, probe.build))]
    /\ UNCHANGED <<pc, set_bits, block_bits, lines_no, cache_simulator, stats,
                   timeStamp, linebuf, nread, applied, out, summary, ref, hist>>

NextShift == ShiftSets \/ ShiftDirty \/ ShiftEvict

SpecShift == InitShift /\ [][NextShift]_vars

----------------------------------------------------------------------------
(* The transpose functions of trans.c.  The memory they work on is held as *)
(*   mem.A    the source, A[i][j] for i < N, j < M                          *)
(*   mem.B    the destination, B[j][i] for j < M, i < N                     *)
(*   mem.tmp  the temporary array                                           *)
(* and each loop is an operator from the loop variable's value to the      *)
(* memory the loop leaves.                                                  *)

\* the entries of tmp the functions below use: 0 .. 63 and 64 .. 71
TmpIdx == 0 .. 71

\* what memory holds before anything is written to it
Garbage == -1

\* a source matrix of pairwise distinct entries
SourceA(M, N) == [i \in 0 .. (N - 1) |-> [j \in 0 .. (M - 1) |-> i * M + j]]

FreshMem(M, N) ==
    [A |-> SourceA(M, N),
     B |-> [j \in 0 .. (M - 1) |-> [i \in 0 .. (N - 1) |-> Garbage]],
     tmp |-> [k \in TmpIdx |-> Garbage]]

\* the body of trans_student's innermost loop
trans_student_body(mem, ii, jj, i, j) ==
    IF i # j THEN [mem EXCEPT !.B[j][i] = mem.A[i][j]]
    ELSE IF ii = jj THEN [mem EXCEPT !.tmp[i - ii + 64] = mem.A[i][j]]
    ELSE mem

\* for (j = jj; j < jj + block_size && j < M; j++)
RECURSIVE trans_student_j(_, _, _, _, _, _)
trans_student_j(mem, M, ii, jj, i, j) ==
    IF ~(j < jj + 8 /\ j < M) THEN mem
    ELSE CHOOSE r \in
           { trans_student_j(m1, M, ii, jj, i, j + 1) :
               m1 \in {trans_student_body(mem, ii, jj, i, j)} } : TRUE

\* a mutant of trans_student_row: the staged diagonal element never written
\* to B
trans_student_rowStaged(mem, M, ii, jj, i) ==
    trans_student_j(mem, M, ii, jj, i, jj)

\* one turn of the loop on i: the loop on j, then the diagonal element
trans_student_row(mem, M, ii, jj, i) ==
    CHOOSE r \in
      { IF ii = jj /\ i < M
        THEN [m1 EXCEPT !.B[i][i] = m1.tmp[i - ii + 64]]
        ELSE m1 :
          m1 \in {trans_student_j(mem, M, ii, jj, i, jj)} } : TRUE

\* for (i = ii; i < ii + block_size && i < N; i++)
RECURSIVE trans_student_i(_, _, _, _, _, _)
trans_student_i(mem, M, N, ii, jj, i) ==
    IF ~(i < ii + 8 /\ i < N) THEN mem
    ELSE CHOOSE r \in
           { trans_student_i(m1, M, N, ii, jj, i + 1) :
               m1 \in {trans_student_row(mem, M, ii, jj, i)} } : TRUE

\* for (jj = 0; jj < M; jj += block_size)
RECURSIVE trans_student_jj(_, _, _, _, _)
trans_student_jj(mem, M, N, ii, jj) ==
    IF ~(jj < M) THEN mem
    ELSE CHOOSE r \in
           { trans_student_jj(m1, M, N, ii, jj + 8) :
               m1 \in {trans_student_i(mem, M, N, ii, jj, ii)} } : TRUE

\* for (ii = 0; ii < N; ii += block_size)
RECURSIVE trans_student_ii(_, _, _, _)
trans_student_ii(mem, M, N, ii) ==
    IF ~(ii < N) THEN mem
    ELSE CHOOSE r \in
           { trans_student_ii(m1, M, N, ii + 8) :
               m1 \in {trans_student_jj(mem, M, N, ii, 0)} } : TRUE

trans_student(mem, M, N) == trans_student_ii(mem, M, N, 0)

\* trans_1024's diagonal block: the block copied to tmp, then tmp to B
trans_1024_diag(mem, ii, jj) ==
    LET rows == ii .. (ii + 7)
        cols == jj .. (jj + 7)
        staged == [k \in TmpIdx |->
                     IF k < 64 THEN mem.A[ii + (k \div 8)][jj + (k % 8)]
                     ELSE mem.tmp[k]]
    IN  [mem EXCEPT
           !.tmp = staged,
           !.B = [j \in DOMAIN mem.B |-> [i \in DOMAIN mem.B[j] |->
                    IF j \in cols /\ i \in rows
                    THEN staged[(i - ii) * 8 + (j - jj)]
                    ELSE mem.B[j][i]]]]

\* trans_1024's other blocks: copied straight from A
trans_1024_off(mem, ii, jj) ==
    [mem EXCEPT
       !.B = [j \in DOMAIN mem.B |-> [i \in DOMAIN mem.B[j] |->
                IF j \in jj .. (jj + 7) /\ i \in ii .. (ii + 7)
                THEN mem.A[i][j]
                ELSE mem.B[j][i]]]]

\* trans_1024's loops on ii and jj, as one loop on the block number
RECURSIVE trans_1024_blocks(_, _, _, _)
trans_1024_blocks(mem, M, N, k) ==
    LET per_row == M \div 8
        ii == 8 * (k \div per_row)
        jj == 8 * (k % per_row)
    IN  IF ~(ii < N) THEN mem
        ELSE CHOOSE r \in
               { trans_1024_blocks(m1, M, N, k + 1) :
                   m1 \in {IF ii = jj THEN trans_1024_diag(mem, ii, jj)
                                      ELSE trans_1024_off(mem, ii, jj)} } : TRUE

trans_1024(mem, M, N) == trans_1024_blocks(mem, M, N, 0)

transpose_submit(mem, M, N) ==
    IF M = N /\ M = 1024 THEN trans_1024(mem, M, N)
    ELSE trans_student(mem, M, N)

\* the driver's call of the registered function on an M x N problem
InitTrans ==
    /\ pc = "trans"
    /\ set_bits = 0
    /\ block_bits = 0
    /\ \E M \in 1 .. MaxDim, N \in 1 .. MaxDim :
           probe = [fn |-> "transpose_submit", M |-> M, N |-> N,
                    done |-> FALSE, mem |-> FreshMem(M, N)]
    /\ AtRest

Transpose ==
    /\ pc = "trans"
    /\ ~probe.done
    /\ probe' = [probe EXCEPT
                    !.done = TRUE,
                    !.mem = transpose_submit(probe.mem, probe.M, probe.N)]
    /\ UNCHANGED <<pc, set_bits, block_bits, lines_no, cache_simulator, stats,
                   timeStamp, linebuf, nread, applied, out, summary, ref, hist>>

NextTrans == Transpose

SpecTrans == InitTrans /\ [][NextTrans]_vars

----------------------------------------------------------------------------
(* The claims. *)

SetIdx == DOMAIN cache_simulator

LineIdx == 0 .. (lines_no - 1)

\* the lines, over all sets, that are valid and dirty
DirtyLines ==
    {sl \in SetIdx \X LineIdx :
        /\ cache_simulator[sl[1]].lines[sl[2]].valid = 1
        /\ cache_simulator[sl[1]].lines[sl[2]].dirty = 1}

\* this step is one call of update_cache that returned
AccessStep == pc = "trace" /\ pc' = "trace" /\ applied' = applied + 1

\* C1: after every access, dirty_bytes is the block size 2^b times the
\* number of lines, over all sets, that are valid and dirty.
C1_DirtyBytes ==
    pc = "trace" =>
        stats.dirty_bytes = (2 ^ block_bits) * Cardinality(DirtyLines)

\* C1's case: a dirty line has been evicted while another line is dirty
C1_Witness ==
    /\ pc = "trace"
    /\ out.kind = "eviction" /\ out.evdirty = 1
    /\ stats.dirty_bytes > 0
    /\ stats.hits > 0

\* C2: no set holds two valid lines with the same tag.
C2_UniqueTags ==
    pc = "trace" =>
        \A si \in SetIdx : \A i, j \in LineIdx :
            (/\ i # j
             /\ cache_simulator[si].lines[i].valid = 1
             /\ cache_simulator[si].lines[j].valid = 1)
            => cache_simulator[si].lines[i].tag # cache_simulator[si].lines[j].tag

\* C2's case: a full two-line set after a hit on its second line
C2_Witness ==
    /\ pc = "trace" /\ lines_no = 2
    /\ out.kind = "hit" /\ out.line = 1
    /\ cache_simulator[out.set].line_index = 2

\* C3: on every eviction the line replaced has the least lru of the lines of
\* its set as they were before the access, and is the lowest-indexed line
\* with that lru; it is the only line of the cache the access changes.
C3_EvictionMinimality ==
    [][(AccessStep /\ stats'.evictions = stats.evictions + 1) =>
        LET si == out'.set
            v == out'.line
            old == cache_simulator[si].lines
        IN  /\ v \in LineIdx
            /\ \A i \in LineIdx : old[v].lru <= old[i].lru
            /\ \A i \in LineIdx : old[i].lru = old[v].lru => v <= i
            /\ cache_simulator'[si].lines[v].tag = out'.tag
            /\ \A sj \in SetIdx : \A i \in LineIdx :
                   (sj # si \/ i # v) =>
                       cache_simulator'[sj].lines[i] = cache_simulator[sj].lines[i]
      ]_vars

\* C3's case: the line evicted is not the first of its set
C3_Witness ==
    /\ pc = "trace" /\ lines_no = 2
    /\ out.kind = "eviction" /\ out.line = 1

\* the blocks a set of the simulator holds, least recently used first, as
\* [tag, dirty] pairs: the valid lines in the order of their lru
RECURSIVE ByLru(_, _)
ByLru(lines, idx) ==
    IF idx = {} THEN <<>>
    ELSE LET i == CHOOSE k \in idx : \A j \in idx : lines[k].lru <= lines[j].lru
         IN  <<[tag |-> FromBits(lines[i].tag), dirty |-> lines[i].dirty = 1]>>
             \o ByLru(lines, idx \ {i})

Resident(si) ==
    ByLru(cache_simulator[si].lines,
          {i \in LineIdx : cache_simulator[si].lines[i].valid = 1})

\* C4: access by access the simulator does what the reference LRU cache
\* does: same outcome (hit, miss, miss with eviction), same tag evicted,
\* same counters, and the same blocks resident in the same order of use.
C4_RefinesLru ==
    pc = "trace" =>
        /\ stats = ref.stats
        /\ out.kind = ref.kind
        /\ (IF out.evicted = NoTag THEN -1 ELSE FromBits(out.evicted))
               = ref.evicted
        /\ \A si \in SetIdx : Resident(si) = ref.sets[si]

\* C4's case: an eviction of a dirty block that was not the first filled,
\* after hits and an earlier eviction
C4_Witness ==
    /\ pc = "trace" /\ lines_no = 2
    /\ ref.kind = "eviction" /\ out.line = 1 /\ out.evdirty = 1
    /\ ref.stats.hits >= 1

\* C5: every access advances the clock by exactly 1.
C5_ClockOncePerAccess ==
    [][AccessStep => timeStamp' = timeStamp + 1]_vars

\* C6: the fill cursor of every set never decreases and never exceeds E, and
\* an access that increments evictions goes to a set whose cursor is E.
C6_MonotonicFill ==
    [][(pc = "trace" /\ pc' = "trace") =>
        /\ \A si \in SetIdx :
               /\ cache_simulator'[si].line_index >= cache_simulator[si].line_index
               /\ cache_simulator'[si].line_index <= lines_no
        /\ stats'.evictions # stats.evictions =>
               cache_simulator[out'.set].line_index = lines_no
      ]_vars

\* C6's case: one set full and evicting while another is still filling
C6_Witness ==
    /\ pc = "trace" /\ set_bits = 1
    /\ stats.evictions >= 1
    /\ \E si \in SetIdx : cache_simulator[si].line_index = lines_no
    /\ \E si \in SetIdx : cache_simulator[si].line_index < lines_no

\* the addresses of the records of the traces explored, as numbers (all are
\* below 2^31)
Addresses ==
    [ln \in TraceLines \cup {NoLine} |->
        FromBits(strtoul(ln.Addr, 16).value)]

\* the address a well-formed line names
AddressOf(ln) == Addresses[ln]

MissAndEvict ==
    /\ stats'.misses = stats.misses + 1
    /\ stats'.evictions = stats.evictions + 1
    /\ stats'.hits = stats.hits

\* C7 as stated: with E = 1, after an access that filled a set, an access to
\* any different address of the same set misses and evicts.
C7_DifferentAddress ==
    [][(/\ AccessStep
        /\ lines_no = 1
        /\ out.kind \in {"miss", "eviction"}
        /\ AddressOf(linebuf') # AddressOf(linebuf)
        /\ RefSetIndex(AddressOf(linebuf'), set_bits, block_bits) = out.set)
       => MissAndEvict]_vars

\* C7 amended: with E = 1, once a set is filled, an access to an address of
\* that set in a block other than the resident one misses and evicts.
C7_DifferentBlock ==
    [][(/\ AccessStep
        /\ lines_no = 1
        /\ LET si == RefSetIndex(AddressOf(linebuf'), set_bits, block_bits)
           IN  /\ cache_simulator[si].lines[0].valid = 1
               /\ cache_simulator[si].lines[0].tag #
                      ToBits(RefTag(AddressOf(linebuf'), set_bits, block_bits)))
       => MissAndEvict]_vars

\* C7's case: a direct-mapped set, with blocks of two bytes, evicts
C7_Witness ==
    /\ pc = "trace" /\ lines_no = 1 /\ block_bits = 1
    /\ out.kind = "eviction"
    /\ stats.hits >= 1

\* C8: a run with E = 0 is rejected: no cache is built, no record applied.
C8_ZeroLinesRejected ==
    lines_no = 0 =>
        /\ pc \in {"main", "exit1"}
        /\ cache_simulator = NullCache
        /\ applied = 0

\* C9: with s >= 64, b >= 64 or s + b >= 64 the run ends in exit(1) before
\* initCache: no cache, no line read, no record applied, no summary.
C9_BadBitsRejected ==
    (set_bits >= 64 \/ block_bits >= 64 \/ set_bits + block_bits >= 64) =>
        /\ pc \in {"main", "exit1"}
        /\ cache_simulator = NullCache
        /\ nread = 0
        /\ applied = 0
        /\ summary = NoSummary

\* C9's case: a configuration rejected only by the sum s + b
C9_Witness ==
    /\ pc = "exit1"
    /\ set_bits < 64 /\ block_bits < 64 /\ set_bits + block_bits >= 64

\* tok reads as a number in full: white space, an optional sign, a 0x or
\* 0X where prefixes are allowed, then digits and nothing else
IsNumber(tok, digits, prefixes) ==
    /\ tok # NULL
    /\ \E sp \in 0 .. Len(tok), sg \in {0, 1}, px \in prefixes :
          /\ sp + sg + px < Len(tok)
          /\ \A i \in 1 .. sp : tok[i] \in SpaceChars
          /\ sg = 1 => tok[sp + 1] \in {"+", "-"}
          /\ px = 2 => tok[sp + sg + 1] = "0" /\ tok[sp + sg + 2] \in {"x", "X"}
          /\ \A i \in (sp + sg + px + 1) .. Len(tok) : tok[i] \in digits

HexDigits == {"0", "1", "2", "3", "4", "5", "6", "7", "8", "9",
              "a", "b", "c", "d", "e", "f", "A", "B", "C", "D", "E", "F"}

DecDigits == {"0", "1", "2", "3", "4", "5", "6", "7", "8", "9"}

\* a malformed record: bad operation character, unparsable address or size,
\* trailing token, over-long line
Malformed(ln) ==
    \/ ln.Op \notin {"L", "S"}
    \/ ~IsNumber(ln.Addr, HexDigits, {0, 2})
    \/ ~IsNumber(ln.Size, DecDigits, {0})
    \/ ln.Junk # NULL
    \/ ln.overlong

\* C10: a malformed record ends the run at once: it is not applied, the run
\* is in exit(1) with the statistics not printed, and nothing follows.
C10_MalformedStops ==
    [][/\ (pc = "trace" /\ nread' = nread + 1 /\ Malformed(linebuf')) =>
              /\ pc' = "exit1"
              /\ applied' = applied
              /\ stats' = stats
              /\ summary' = NoSummary
       /\ pc # "exit1"
      ]_vars

\* C10's case: a bad operation character after records that were applied
C10_Witness ==
    /\ pc = "exit1"
    /\ linebuf.Op = "M"
    /\ applied >= 2 /\ stats.misses >= 1
    /\ summary = NoSummary

----------------------------------------------------------------------------
(* C11: determinism. *)

\* C11: when the program is executed a second time on the same (s, E, b)
\* and the same trace file, whatever the memory malloc returns to either
\* execution holds, the second has after each record the statistics the
\* first had after it, and hands printSummary the statistics the first
\* handed it.
C11_Deterministic ==
    probe.first.pc = "done" =>
        /\ pc = "trace" => hist = SubSeq(probe.first.after, 1, nread + 1)
        /\ pc = "done" => /\ hist = probe.first.after
                          /\ summary = probe.first.summary

\* both executions have ended, on a file of three records with a hit and an
\* eviction
C11_Witness ==
    /\ probe.first.pc = "done"
    /\ pc = "done"
    /\ Len(probe.lines) >= 3
    /\ summary.hits > 0
    /\ summary.evictions > 0

----------------------------------------------------------------------------
(* C12: the decoding of the address. *)

\* bit i of floor(x / 2^k)
QuotientBit(x, k, i) == IF i + k <= WordBits - 1 THEN x[i + k] ELSE 0

\* 2^k as a word
Pow2Word(k) == WordOf({k})

\* x - 1 modulo 2^64: the lowest one and the zeros below it are flipped
DecWord(x) ==
    [i \in BitIdx |-> IF \A j \in 0 .. (i - 1) : x[j] = 0 THEN 1 - x[i]
                      ELSE x[i]]

\* C12: for every address and every accepted (s, b), the tag is
\* address >> (b + s) and the set index is (address >> b) & (2^s - 1), which
\* is 0 when s = 0; the mask of the code, all ones shifted right by 64 - s,
\* is the mask (1 << s) - 1 and gives the same set index, for 1 <= s < 64.
C12_Decode ==
    (probe.fn = "decode" /\ probe.done) =>
        LET a == probe.address
            s == set_bits
            b == block_bits
        IN  /\ \A i \in BitIdx :
                   probe.tag_index[i] = QuotientBit(a, b + s, i)
            /\ \A i \in BitIdx :
                   probe.set_index[i] =
                       IF i < s THEN QuotientBit(a, b, i) ELSE 0
            /\ s = 0 => probe.set_index = ZeroWord
            /\ s >= 1 =>
                   /\ SetMask(s) = DecWord(Pow2Word(s))
                   /\ probe.set_index =
                          BitAnd(Shr(a, b), DecWord(Pow2Word(s)))

\* an address with high bits decoded under more than 32 set bits: the top
\* bit of the set index and the lowest bit of the tag are ones
C12_Witness ==
    /\ probe.fn = "decode"
    /\ probe.done
    /\ set_bits > 32
    /\ block_bits > 0
    /\ probe.set_index[set_bits - 1] = 1
    /\ probe.tag_index[0] = 1

----------------------------------------------------------------------------
(* C13: the scenario of the specification. *)

\* the first k lines of the scenario have been read and applied
ScenarioAt(k) == pc = "trace" /\ hist = SubSeq(Scenario, 1, k)

\* C13: with s = 1, E = 1, b = 4 the accesses Load 0x0, Load 0x14, Load 0x0,
\* Store 0x40, Store 0x40 are a cold miss, a cold miss, a hit, a miss that
\* evicts a clean line, and a hit; after the fourth hits = 1, misses = 3,
\* evictions = 1, dirty_bytes = 16, dirty_evictions = 0; after the fifth
\* dirty_bytes is still 16 and hits = 2.
C13_Scenario ==
    /\ ScenarioAt(1) => out.kind = "miss" /\ stats.evictions = 0
    /\ ScenarioAt(2) => out.kind = "miss" /\ stats.evictions = 0
    /\ ScenarioAt(3) => out.kind = "hit"
    /\ ScenarioAt(4) =>
          /\ out.kind = "eviction"
          /\ out.evdirty = 0
          /\ stats = [hits |-> 1, misses |-> 3, evictions |-> 1,
                      dirty_bytes |-> 16, dirty_evictions |-> 0]
    /\ ScenarioAt(5) =>
          /\ out.kind = "hit"
          /\ stats.dirty_bytes = 16
          /\ stats.hits = 2

\* the five accesses of the scenario have been applied
C13_Witness == ScenarioAt(5) /\ applied = 5

----------------------------------------------------------------------------
(* C14: the transpose. *)

\* C14: for every M > 0 and N > 0 other than M = N = 1024, transpose_submit
\* ends with B[j][i] = A[i][j] for all i < N and j < M, whether or not the
\* matrix is square or its sides multiples of 8, and A is as it was.
C14_Transposed ==
    (probe.fn = "transpose_submit" /\ probe.done) =>
        /\ \A i \in 0 .. (probe.N - 1), j \in 0 .. (probe.M - 1) :
               probe.mem.B[j][i] = SourceA(probe.M, probe.N)[i][j]
        /\ probe.mem.A = SourceA(probe.M, probe.N)

\* a matrix that is not square, wider and higher than one block and with
\* sides that are not multiples of 8, has been transposed
C14_Witness ==
    /\ probe.fn = "transpose_submit"
    /\ probe.done
    /\ probe.M > 8 /\ probe.N > 8
    /\ probe.M # probe.N
    /\ probe.M % 8 # 0 /\ probe.N % 8 # 0
    /\ probe.mem.B[8][8] = probe.mem.A[8][8]
    /\ probe.mem.tmp[64] # Garbage

----------------------------------------------------------------------------
(* C15, C16: the shifts evaluated in int. *)

\* C15: for every accepted configuration (s < 64, b < 64, s + b < 64)
\* initCache creates exactly 2^s sets, the shift 1 << s being evaluated in
\* 32-bit int before it is widened.
C15_SetsAllocated ==
    (probe.fn = "shift" /\ probe.step # "start") =>
        probe.no_sets = Pow2Word(set_bits)

\* C16: for every b with 0 <= b < 64, each adjustment of dirty_bytes and of
\* dirty_evictions adds or subtracts exactly 2^b as an unsigned 64-bit
\* quantity, the shift 1 << block_bits being evaluated in 32-bit int.
C16_BlockSize ==
    /\ (probe.fn = "shift" /\ probe.step = "dirty") =>
           probe.dirty_bytes = AddWord(ZeroWord, Pow2Word(block_bits))
    /\ (probe.fn = "shift" /\ probe.step = "evicted") =>
           /\ probe.dirty_evictions = AddWord(ZeroWord, Pow2Word(block_bits))
           /\ probe.dirty_bytes = ZeroWord

----------------------------------------------------------------------------
(* C17, C18, C19: what one access changes.  The access is the one of the   *)
(* line read in the step; its set and tag are taken arithmetically.        *)

AccSet == RefSetIndex(AddressOf(linebuf'), set_bits, block_bits)

AccTag == ToBits(RefTag(AddressOf(linebuf'), set_bits, block_bits))

AccStore == linebuf'.Op = "S"

BlockSize == 2 ^ block_bits

\* line li of the accessed set holds the accessed block before the access
Matching(li) ==
    /\ cache_simulator[AccSet].lines[li].valid = 1
    /\ cache_simulator[AccSet].lines[li].tag = AccTag

AccHit == \E li \in LineIdx : Matching(li)

\* every line of every set keeps its tag and its valid bit
TagsAndValidKept ==
    \A si \in SetIdx, li \in LineIdx :
        /\ cache_simulator'[si].lines[li].tag = cache_simulator[si].lines[li].tag
        /\ cache_simulator'[si].lines[li].valid =
               cache_simulator[si].lines[li].valid

\* C17: on a hit, hits grows by 1 and the matching line's lru becomes the
\* clock before the access; dirty_bytes grows by the block size only if the
\* operation is a Store and the line was clean, and the line is then dirty;
\* a Store hit on a dirty line and any Load hit leave the dirty flag and
\* dirty_bytes as they were; misses, evictions, dirty_evictions, every
\* line's tag and valid bit and every fill cursor are unchanged.
C17_HitFrame ==
    [][(AccessStep /\ AccHit) =>
        /\ stats'.hits = stats.hits + 1
        /\ \A li \in LineIdx : Matching(li) =>
              LET before == cache_simulator[AccSet].lines[li]
                  after == cache_simulator'[AccSet].lines[li]
              IN  /\ after.lru = timeStamp
                  /\ IF AccStore /\ before.dirty = 0
                     THEN /\ after.dirty = 1
                          /\ stats'.dirty_bytes = stats.dirty_bytes + BlockSize
                     ELSE /\ after.dirty = before.dirty
                          /\ stats'.dirty_bytes = stats.dirty_bytes
        /\ stats'.misses = stats.misses
        /\ stats'.evictions = stats.evictions
        /\ stats'.dirty_evictions = stats.dirty_evictions
        /\ TagsAndValidKept
        /\ \A si \in SetIdx :
               cache_simulator'[si].line_index = cache_simulator[si].line_index
      ]_vars

\* a Load has hit a dirty line, one of the two lines of its set: the line is
\* still dirty, it is the latest used, and dirty_bytes counts it once
C17_Witness ==
    /\ pc = "trace"
    /\ out.kind = "hit"
    /\ linebuf.Op = "L"
    /\ lines_no = 2
    /\ cache_simulator[out.set].lines[out.line].dirty = 1
    /\ cache_simulator[out.set].lines[out.line].lru = timeStamp - 1
    /\ stats.dirty_bytes = BlockSize
    /\ stats.hits >= 1

\* the line the fill cursor of the accessed set points at
Cursor == cache_simulator[AccSet].line_index

\* C18: on a miss in a set whose line_index is below E, exactly the line at
\* index line_index is written (valid, the tag of the access, dirty exactly
\* for a Store, lru the clock before the access), line_index grows by 1,
\* misses grows by 1, dirty_bytes grows by the block size exactly for a
\* Store, and evictions and dirty_evictions are unchanged.
C18_ColdFill ==
    [][(AccessStep /\ ~AccHit /\ Cursor < lines_no) =>
        /\ cache_simulator'[AccSet].lines[Cursor] =
               [valid |-> 1, tag |-> AccTag,
                dirty |-> IF AccStore THEN 1 ELSE 0, lru |-> timeStamp]
        /\ \A si \in SetIdx, li \in LineIdx :
               (si # AccSet \/ li # Cursor) =>
                   cache_simulator'[si].lines[li] = cache_simulator[si].lines[li]
        /\ cache_simulator'[AccSet].line_index = Cursor + 1
        /\ stats'.misses = stats.misses + 1
        /\ stats'.hits = stats.hits
        /\ stats'.dirty_bytes =
               stats.dirty_bytes + (IF AccStore THEN BlockSize ELSE 0)
        /\ stats'.evictions = stats.evictions
        /\ stats'.dirty_evictions = stats.dirty_evictions
      ]_vars

\* a Store has filled the second line of a set of two: the first line is
\* as it was left, the cursor is at E
C18_Witness ==
    /\ pc = "trace"
    /\ out.kind = "miss"
    /\ linebuf.Op = "S"
    /\ lines_no = 2
    /\ out.line = 1
    /\ cache_simulator[out.set].line_index = 2
    /\ cache_simulator[out.set].lines[1].dirty = 1
    /\ cache_simulator[out.set].lines[0].dirty = 0
    /\ stats.dirty_bytes = BlockSize

\* line li of the accessed set is the one the access rewrote
Rewritten(li) ==
    cache_simulator'[AccSet].lines[li] # cache_simulator[AccSet].lines[li]

\* C19: on a miss in a full set, misses and evictions each grow by 1,
\* dirty_evictions grows by the block size exactly when the victim was
\* dirty, dirty_bytes changes by (block size if Store) minus (block size if
\* the victim was dirty), the victim ends valid with the tag of the access
\* and dirty exactly for a Store, and line_index stays E.
C19_Eviction ==
    [][(AccessStep /\ ~AccHit /\ Cursor = lines_no) =>
        /\ stats'.misses = stats.misses + 1
        /\ stats'.evictions = stats.evictions + 1
        /\ stats'.hits = stats.hits
        /\ cache_simulator'[AccSet].line_index = lines_no
        /\ \E victim \in LineIdx :
              LET before == cache_simulator[AccSet].lines[victim]
                  after == cache_simulator'[AccSet].lines[victim]
                  was_dirty == before.valid = 1 /\ before.dirty = 1
              IN  /\ \A li \in LineIdx : Rewritten(li) <=> li = victim
                  /\ after.valid = 1
                  /\ after.tag = AccTag
                  /\ after.dirty = IF AccStore THEN 1 ELSE 0
                  /\ stats'.dirty_evictions = stats.dirty_evictions
                         + (IF was_dirty THEN BlockSize ELSE 0)
                  /\ stats'.dirty_bytes = stats.dirty_bytes
                         + (IF AccStore THEN BlockSize ELSE 0)
                         - (IF was_dirty THEN BlockSize ELSE 0)
      ]_vars

\* a Load has evicted a dirty line from a full set of two whose other line
\* is dirty too: dirty_evictions holds one block, dirty_bytes one block
C19_Witness ==
    /\ pc = "trace"
    /\ out.kind = "eviction"
    /\ out.evdirty = 1
    /\ linebuf.Op = "L"
    /\ lines_no = 2
    /\ cache_simulator[out.set].line_index = 2
    /\ cache_simulator[out.set].lines[out.line].dirty = 0
    /\ stats.dirty_evictions = BlockSize
    /\ stats.dirty_bytes = BlockSize

----------------------------------------------------------------------------
(* C20: the states of a line. *)

\* the cache exists before and after the step
CacheKept == pc = "trace" /\ pc' = "trace"

Clean(l) == l.valid = 1 /\ l.dirty = 0

Dirty(l) == l.valid = 1 /\ l.dirty = 1

\* the step is an access that evicts the line: its tag changes and
\* evictions grows
Evicts(before, after) ==
    /\ after.tag # before.tag
    /\ stats'.evictions = stats.evictions + 1

\* every line starts Invalid and, once filled, is valid for ever
StartsInvalidStaysValid ==
    /\ (pc = "main" /\ pc' = "trace") =>
           \A si \in DOMAIN cache_simulator', li \in LineIdx :
               cache_simulator'[si].lines[li].valid = 0
    /\ CacheKept =>
           \A si \in SetIdx, li \in LineIdx :
               cache_simulator[si].lines[li].valid = 1 =>
                   cache_simulator'[si].lines[li].valid = 1

\* a Dirty line becomes Clean only in an access that evicts it
DirtyToCleanByEviction ==
    CacheKept =>
        \A si \in SetIdx, li \in LineIdx :
            LET before == cache_simulator[si].lines[li]
                after == cache_simulator'[si].lines[li]
            IN  (Dirty(before) /\ Clean(after)) => Evicts(before, after)

\* line li of set si is the line a Store hits in the step
StoreHitOn(si, li) ==
    /\ AccessStep
    /\ AccStore
    /\ si = AccSet
    /\ Matching(li)

\* C20 as stated: every line starts Invalid; once filled it is valid for
\* ever; a Clean line becomes Dirty only by a Store hit on it; a Dirty line
\* becomes Clean only in an access that evicts it (its tag changes and
\* evictions grows in that access).
C20_LineMachine ==
    [][/\ StartsInvalidStaysValid
       /\ DirtyToCleanByEviction
       /\ CacheKept =>
             \A si \in SetIdx, li \in LineIdx :
                 LET before == cache_simulator[si].lines[li]
                     after == cache_simulator'[si].lines[li]
                 IN  (Clean(before) /\ Dirty(after)) => StoreHitOn(si, li)
      ]_vars

\* C20 amended: a Clean line becomes Dirty only by a Store hit on it or in
\* an access that evicts it, a Store miss that takes the line for its own
\* block; the rest as stated.
C20_LineMachineRefill ==
    [][/\ StartsInvalidStaysValid
       /\ DirtyToCleanByEviction
       /\ CacheKept =>
             \A si \in SetIdx, li \in LineIdx :
                 LET before == cache_simulator[si].lines[li]
                     after == cache_simulator'[si].lines[li]
                 IN  (Clean(before) /\ Dirty(after)) =>
                        \/ StoreHitOn(si, li) /\ after.tag = before.tag
                        \/ /\ AccessStep /\ AccStore /\ ~AccHit
                           /\ si = AccSet
                           /\ Evicts(before, after)
      ]_vars

\* a Store has evicted a clean line and left its own block there, dirty
C20_Witness ==
    /\ pc = "trace"
    /\ out.kind = "eviction"
    /\ out.evdirty = 0
    /\ linebuf.Op = "S"
    /\ cache_simulator[out.set].lines[out.line].dirty = 1
    /\ cache_simulator[out.set].lines[out.line].tag # out.evicted
    /\ stats.dirty_evictions = 0

----------------------------------------------------------------------------
(* C21: the clock. *)

\* the clock grows in every access and never goes back while the cache
\* lives
ClockGrows ==
    /\ AccessStep => timeStamp' > timeStamp
    /\ CacheKept => timeStamp' >= timeStamp

\* C21 as stated: the clock is strictly greater after each access than
\* before it and never resets, and every lru value held in any line is
\* strictly less than the current clock.
C21_ClockAboveLru ==
    /\ [][ClockGrows]_vars
    /\ [](pc = "trace" =>
            \A si \in SetIdx, li \in LineIdx :
                cache_simulator[si].lines[li].lru < timeStamp)

\* C21 amended: the lru values meant are those an access has stored, the
\* ones of the valid lines; after the first access the lru of every line,
\* filled or not, is below the clock.
C21_ClockAboveStamped ==
    /\ [][ClockGrows]_vars
    /\ [](pc = "trace" =>
            \A si \in SetIdx, li \in LineIdx :
                (cache_simulator[si].lines[li].valid = 1 \/ applied >= 1) =>
                    cache_simulator[si].lines[li].lru < timeStamp)

\* after an eviction the clock is ahead of the number of accesses, the line
\* last stamped holds the clock less one, and a line is still unfilled
C21_Witness ==
    /\ pc = "trace"
    /\ stats.evictions >= 1
    /\ timeStamp > applied
    /\ \E si \in SetIdx, li \in LineIdx :
           /\ cache_simulator[si].lines[li].valid = 1
           /\ cache_simulator[si].lines[li].lru = timeStamp - 1
    /\ \E si \in SetIdx, li \in LineIdx :
           cache_simulator[si].lines[li].valid = 0

----------------------------------------------------------------------------
(* C22: the trace driver. *)

\* the accesses made so far are the first records of the file, in order:
\* the lines applied are the lines of the file, and the last access went to
\* the set and tag of the record at its position
AppliedInOrder ==
    /\ applied = nread
    /\ hist = SubSeq(probe.lines, 1, applied)
    /\ applied >= 1 =>
           LET a == AddressOf(probe.lines[applied])
           IN  /\ out.set = RefSetIndex(a, set_bits, block_bits)
               /\ out.tag = ToBits(RefTag(a, set_bits, block_bits))

\* C22: for every finite well-formed trace of n records the run ends after
\* update_cache has been applied exactly n times, the i-th application
\* being that of the i-th record of the file, and the statistics are handed
\* to printSummary exactly once, after the n-th access.
C22_RunsInOrder ==
    /\ [](pc = "trace" => AppliedInOrder /\ summary = NoSummary)
    /\ [](pc = "done" =>
            /\ applied = Len(probe.lines)
            /\ hist = probe.lines
            /\ summary = stats)
    /\ [][summary' # summary => (summary = NoSummary /\ pc' = "done")]_vars
    /\ [][pc # "done"]_vars
    /\ (pc = "trace") ~> (pc = "done")

\* a file of three records, no two alike, has been applied to its end
C22_Witness ==
    /\ pc = "done"
    /\ probe.fn = "file"
    /\ Len(probe.lines) = 3
    /\ applied = 3
    /\ probe.lines[1] # probe.lines[2]
    /\ probe.lines[2] # probe.lines[3]
    /\ probe.lines[1] # probe.lines[3]
    /\ summary.hits + summary.misses = 3


----------------------------------------------------------------------------
(* C23                                                                     *)

\* one access counts as a hit or as a miss, never both, never neither
OneCounted ==
    AccessStep =>
        \/ stats'.hits = stats.hits + 1 /\ stats'.misses = stats.misses
        \/ stats'.hits = stats.hits /\ stats'.misses = stats.misses + 1

\* C23: each access increments exactly one of hits and misses, by exactly
\* 1, so after n accesses hits + misses = n.
C23_HitOrMiss ==
    /\ [][OneCounted]_vars
    /\ [](pc = "trace" => stats.hits + stats.misses = applied)

\* three accesses done, of which at least one hit, one cold miss and one
\* miss that evicted
C23_Witness ==
    /\ pc = "trace"
    /\ applied = 3
    /\ stats.hits >= 1
    /\ stats.evictions >= 1
    /\ stats.misses > stats.evictions
    /\ stats.hits + stats.misses = 3


----------------------------------------------------------------------------
(* C24                                                                     *)

RECURSIVE CursorSum(_)
\* the sum of line_index over the sets in S
CursorSum(S) ==
    IF S = {} THEN 0
    ELSE LET si == CHOOSE x \in S : TRUE
         IN  cache_simulator[si].line_index + CursorSum(S \ {si})

\* some set holds as many lines as it has
SomeSetFull == \E si \in SetIdx : cache_simulator[si].line_index = lines_no

\* C24: while the cache exists, evictions = misses - (sum of line_index
\* over all sets); so evictions <= misses, and evictions is 0 until some
\* set has been completely filled.
C24_EvictionsCounted ==
    pc = "trace" =>
        /\ stats.evictions = stats.misses - CursorSum(SetIdx)
        /\ stats.evictions <= stats.misses
        /\ stats.evictions > 0 => SomeSetFull

\* two sets of two lines: one full and evicted from, the other part filled
C24_Witness ==
    /\ pc = "trace"
    /\ lines_no = 2
    /\ stats.evictions >= 1
    /\ CursorSum(SetIdx) = 3
    /\ stats.misses = stats.evictions + 3
    /\ \E si \in SetIdx : cache_simulator[si].line_index = 1


----------------------------------------------------------------------------
(* C25                                                                     *)

\* C25: while the cache exists, in every set line j is valid if and only if
\* j < line_index, and every line at an index >= line_index still has the
\* values initCache gave it (valid = 0, dirty = 0, tag = 0, lru = 0).
C25_ValidPrefix ==
    pc = "trace" =>
        \A si \in SetIdx, j \in LineIdx :
            LET set == cache_simulator[si]
            IN  /\ set.lines[j].valid = 1 <=> j < set.line_index
                /\ j >= set.line_index =>
                       /\ set.lines[j].valid = 0
                       /\ set.lines[j].dirty = 0
                       /\ set.lines[j].tag = ZeroWord
                       /\ set.lines[j].lru = 0

\* a set of two lines with the first filled by a store and the second
\* untouched, next to a set that is full and holds a nonzero tag
C25_Witness ==
    /\ pc = "trace"
    /\ lines_no = 2
    /\ \E si \in SetIdx :
           /\ cache_simulator[si].line_index = 1
           /\ cache_simulator[si].lines[0].valid = 1
           /\ cache_simulator[si].lines[0].dirty = 1
           /\ cache_simulator[si].lines[0].lru > 0
           /\ cache_simulator[si].lines[1] = NewLine
    /\ \E si \in SetIdx :
           /\ cache_simulator[si].line_index = 2
           /\ cache_simulator[si].lines[0].valid = 1
           /\ cache_simulator[si].lines[1].valid = 1
           /\ cache_simulator[si].lines[1].tag # ZeroWord


----------------------------------------------------------------------------
(* C26                                                                     *)

\* the lines, over all sets, that are valid
ValidLines ==
    {sl \in SetIdx \X LineIdx : cache_simulator[sl[1]].lines[sl[2]].valid = 1}

\* the lines of set si holding the least lru of the set
Oldest(si) ==
    {li \in LineIdx :
        \A lj \in LineIdx :
            cache_simulator[si].lines[li].lru <= cache_simulator[si].lines[lj].lru}

\* C26: while the cache exists, the lru values of all valid lines of the
\* whole cache are pairwise distinct; so a full set has exactly one line of
\* least lru, and line2replace never has a tie to break.
C26_LruDistinct ==
    pc = "trace" =>
        /\ \A x \in ValidLines, y \in ValidLines :
               x # y => cache_simulator[x[1]].lines[x[2]].lru
                           # cache_simulator[y[1]].lines[y[2]].lru
        /\ \A si \in SetIdx :
               cache_simulator[si].line_index = lines_no =>
                   /\ Cardinality(Oldest(si)) = 1
                   /\ Oldest(si) = {line2replace(cache_simulator[si], lines_no)}

\* a full set of two lines of which the second is the older one, after an
\* eviction, with a valid line in another set
C26_Witness ==
    /\ pc = "trace"
    /\ lines_no = 2
    /\ stats.evictions >= 1
    /\ Cardinality(ValidLines) = 3
    /\ \E si \in SetIdx :
           /\ cache_simulator[si].line_index = 2
           /\ Oldest(si) = {1}


----------------------------------------------------------------------------
(* C27                                                                     *)

\* the sets other than the one the access decodes to are left as they were
OtherSetsKept ==
    AccessStep =>
        /\ DOMAIN cache_simulator' = DOMAIN cache_simulator
        /\ \A si \in SetIdx \ {AccSet} :
               /\ cache_simulator'[si].line_index = cache_simulator[si].line_index
               /\ cache_simulator'[si].lines = cache_simulator[si].lines
        /\ cache_simulator'[AccSet] # cache_simulator[AccSet]

\* C27: an access whose address decodes to set k changes only set k: every
\* other set keeps all its lines (valid, dirty, tag, lru) and its
\* line_index, whether the access hits, fills a line or evicts one.
C27_OnlyTheSet == [][OtherSetsKept]_vars

\* an eviction in one set, after a hit, while the other set holds a valid
\* line
C27_Witness ==
    /\ pc = "trace"
    /\ Cardinality(SetIdx) = 2
    /\ out.kind = "eviction"
    /\ stats.hits >= 1
    /\ \E si \in SetIdx \ {out.set} :
           /\ cache_simulator[si].line_index >= 1
           /\ cache_simulator[si].lines[0].valid = 1

====
